---- MODULE Spec2Model ----
(***************************************************************************)
(* A model of dfn_lib/dfn_utils.py (Desert Fireball Network helpers):      *)
(*   search_dfn_operation_log   log key/value extraction                   *)
(*   time_factory, round_to_nearest_n_seconds   time normalisation         *)
(*   resolve_glob, getDfnstationConfigFile      glob based file lookup     *)
(*   find_log_file              recursive log file lookup                  *)
(* Python strings are modelled as sequences of one-character (or, for the  *)
(* file names, prefix-free multi-character) tokens, so that substring      *)
(* tests, split, rstrip, fnmatch and sorting are computed, not assumed.    *)
(* The interpreter modelled is Python 3.                                   *)
(***************************************************************************)
EXTENDS Integers, Sequences, FiniteSets, TLC

VARIABLES
    \* search_dfn_operation_log: arguments, locals and outcome
    log_lines, key, module, results, line_no, found, return_object, log_pc,
    \* time_factory / round_to_nearest_n_seconds
    itime, n, t_fact, t_round, t_round2, time_pc,
    \* resolve_glob / getDfnstationConfigFile
    dir_entries, glob_args, reslist, cfg_result, warned, glob_pc,
    \* find_log_file
    find_output, find_args, find_result, find_pc

log_vars  == <<log_lines, key, module, results, line_no, found, return_object, log_pc>>
time_vars == <<itime, n, t_fact, t_round, t_round2, time_pc>>
glob_vars == <<dir_entries, glob_args, reslist, cfg_result, warned, glob_pc>>
find_vars == <<find_output, find_args, find_result, find_pc>>
vars == <<log_vars, time_vars, glob_vars, find_vars>>

----------------------------------------------------------------------------
(* Bounds of the model *)

\* most lines in a log file
MaxLines == 3

----------------------------------------------------------------------------
(* Python str operations, on sequences of tokens *)

\* s[i:i+len(sub)] == sub
MatchAt(s, sub, i) ==
    /\ i >= 1
    /\ i + Len(sub) - 1 <= Len(s)
    /\ SubSeq(s, i, i + Len(sub) - 1) = sub

\* sub in s
Contains(s, sub) == \E i \in 1..(Len(s) - Len(sub) + 1) : MatchAt(s, sub, i)

\* s.startswith(p)
StartsWith(s, p) == MatchAt(s, p, 1)

\* s.find(sub), 1-based, 0 when absent
Find(s, sub) ==
    IF Contains(s, sub)
    THEN CHOOSE i \in 1..(Len(s) - Len(sub) + 1) :
            /\ MatchAt(s, sub, i)
            /\ \A j \in 1..(i - 1) : ~MatchAt(s, sub, j)
    ELSE 0

\* s.split(sep) for a non-empty sep: every non-overlapping occurrence, left to right
RECURSIVE Split(_, _)
Split(s, sep) ==
    LET i == Find(s, sep) IN
    IF i = 0 THEN <<s>>
    ELSE <<SubSeq(s, 1, i - 1)>> \o Split(SubSeq(s, i + Len(sep), Len(s)), sep)

Whitespace == {" ", "\n", "\t"}

\* s.rstrip()
RECURSIVE Rstrip(_)
Rstrip(s) ==
    IF Len(s) > 0 /\ s[Len(s)] \in Whitespace
    THEN Rstrip(SubSeq(s, 1, Len(s) - 1))
    ELSE s

----------------------------------------------------------------------------
(* search_dfn_operation_log *)

\* module + ', ' + key + ', '
Separator(mod, k) == mod \o <<",", " ">> \o k \o <<",", " ">>

\* key in line and module in line
IsCandidate(line, k, mod) == Contains(line, k) /\ Contains(line, mod)

\* line.split(module + ', ' + key + ', ')
SplitLine(line, k, mod) == Split(line, Separator(mod, k))

\* the keys and modules searched for
Keys == {<<"k">>}
Modules == {<<>>, <<"m">>}
Modes == {"first", "list", "all"}

\* the lines a log file is made of: "<timestamp>, <level>, <module>, <key>, <value>"
\* lines, lines of other keys or modules, and lines that hold the key and the
\* module outside the logging format
LogLines(k, mod) ==
    LET sep == Separator(mod, k)
        ts  == <<"t", ",", " ">>
    IN { <<"\n">>,
         ts \o <<"m", ",", " ", "o", ",", " ", "v", "\n">>,
         ts \o <<"o", ",", " ">> \o k \o <<",", " ", "v", "\n">>,
         ts \o sep \o <<"v", "\n">>,
         ts \o sep \o <<"w", ",", " ", "v", " ", "\n">>,
         ts \o sep \o <<"\n">>,
         ts \o sep \o <<"v", " ">> \o sep \o <<"w", "\n">>,
         ts \o <<"m", ",", " ", "o", ",", " ">> \o k \o <<"\n">>,
         ts \o sep \o <<"w">> }

LogFiles(k, mod) ==
    UNION { [1..len -> LogLines(k, mod)] : len \in 0..MaxLines }

LogIdle ==
    /\ log_lines = <<>> /\ key = <<>> /\ module = <<>> /\ results = "first"
    /\ line_no = 0 /\ found = FALSE /\ return_object = [tag |-> "unset"]
    /\ log_pc = "idle"

\* lines 173-177: the state on entry of the with block
LogInit ==
    /\ key \in Keys
    /\ module \in Modules
    /\ results \in Modes
    /\ log_lines \in LogFiles(key, module)
    /\ line_no = 0
    /\ found = FALSE
    /\ return_object = [tag |-> "unset"]
    /\ log_pc = "entry"

\* lines 174-177
CheckMode ==
    /\ UNCHANGED <<time_vars, glob_vars, find_vars>>
    /\ log_pc = "entry"
    /\ IF results \notin {"first", "list"}
       THEN /\ log_pc' = "KeyError_mode"
            /\ UNCHANGED return_object
       ELSE /\ log_pc' = "loop"
            /\ return_object' = IF results = "list"
                                THEN [tag |-> "list", val |-> <<>>]
                                ELSE return_object
    /\ UNCHANGED <<log_lines, key, module, results, line_no, found>>

\* lines 180-189: one iteration of the loop over the lines of the file
ScanLine ==
    /\ UNCHANGED <<time_vars, glob_vars, find_vars>>
    /\ log_pc = "loop"
    /\ line_no < Len(log_lines)
    /\ line_no' = line_no + 1
    /\ LET line == log_lines[line_no + 1] IN
       IF IsCandidate(line, key, module)
       THEN LET parts == SplitLine(line, key, module) IN
            IF Len(parts) < 2
            THEN \* [1] of a one-element list
                 /\ log_pc' = "IndexError"
                 /\ UNCHANGED <<found, return_object>>
            ELSE LET parsed_value == Rstrip(parts[2]) IN
                 /\ found' = TRUE
                 /\ IF results = "first"
                    THEN /\ return_object' = [tag |-> "str", val |-> parsed_value]
                         /\ log_pc' = "after_loop"
                    ELSE /\ return_object' =
                              [tag |-> "list", val |-> Append(return_object.val, parsed_value)]
                         /\ log_pc' = "loop"
       ELSE UNCHANGED <<found, return_object, log_pc>>
    /\ UNCHANGED <<log_lines, key, module, results>>

\* line 180: the file is exhausted
EndOfFile ==
    /\ UNCHANGED <<time_vars, glob_vars, find_vars>>
    /\ log_pc = "loop"
    /\ line_no = Len(log_lines)
    /\ log_pc' = "after_loop"
    /\ UNCHANGED <<log_lines, key, module, results, line_no, found, return_object>>

\* lines 190-193
ReturnOrRaise ==
    /\ UNCHANGED <<time_vars, glob_vars, find_vars>>
    /\ log_pc = "after_loop"
    /\ log_pc' = IF found THEN "returned" ELSE "KeyError"
    /\ UNCHANGED <<log_lines, key, module, results, line_no, found, return_object>>

----------------------------------------------------------------------------
(* time_factory *)

\* most decimal digits of the integer part of a numeric input, less one
MaxExp == 8
\* ticks per second of the modelled sub-second resolution
Res == 2
\* half width, in ticks, of the windows of times around noon and midnight
Window == 70
\* the integers tried as rounding factor are -MaxN..MaxN
MaxN == 61

RECURSIVE Pow10(_)
Pow10(e) == IF e = 0 THEN 1 ELSE 10 * Pow10(e - 1)

\* len(str(k)) for an int k >= 0
RECURSIVE NumDigits(_)
NumDigits(k) == IF k < 10 THEN 1 ELSE 1 + NumDigits(k \div 10)

\* len(str(int(f))) of a float whose int() is (-1 if neg else 1) * ip: the sign is
\* a character of str(int(f))
StrIntLen(neg, ip) == NumDigits(ip) + (IF neg /\ ip > 0 THEN 1 ELSE 0)

Digit == {"0", "1", "2", "3", "4", "5", "6", "7", "8", "9"}

DigitVal(c) ==
    CASE c = "0" -> 0 [] c = "1" -> 1 [] c = "2" -> 2 [] c = "3" -> 3 [] c = "4" -> 4
      [] c = "5" -> 5 [] c = "6" -> 6 [] c = "7" -> 7 [] c = "8" -> 8 [] c = "9" -> 9

\* re.match("^\d+?\.\d+?$", s): digits, one dot, digits; $ also matches before a
\* final newline
DecimalMatch(s) ==
    LET body == IF Len(s) > 0 /\ s[Len(s)] = "\n" THEN SubSeq(s, 1, Len(s) - 1) ELSE s
    IN \E d \in 2..(Len(body) - 1) :
          /\ body[d] = "."
          /\ \A i \in (1..Len(body)) \ {d} : body[i] \in Digit

\* int(float(s)) of a string that matches the pattern: the digits before the dot
RECURSIVE DigitsValue(_)
DigitsValue(ds) ==
    IF Len(ds) = 0 THEN 0
    ELSE 10 * DigitsValue(SubSeq(ds, 1, Len(ds) - 1)) + DigitVal(ds[Len(ds)])

IntPartOfString(s) == DigitsValue(SubSeq(s, 1, Find(s, <<".">>) - 1))

\* the sign and the int() of the float a numeric input is converted to
FloatOf(it) ==
    IF it.kind = "float" THEN [neg |-> it.neg, ip |-> it.ip]
    ELSE [neg |-> FALSE, ip |-> IntPartOfString(it.text)]

\* lines 61: isinstance(itime, float) or (isinstance(itime, str) and re.match(...))
IsNumeric(it) ==
    \/ it.kind = "float"
    \/ it.kind = "str" /\ DecimalMatch(it.text)

\* lines 63-66: the format a numeric input is read in
NumericFormat(f) == IF StrIntLen(f.neg, f.ip) > 7 THEN "unix" ELSE "jd"

\* time_factory: the format the input is read in, or the TypeError
TimeFactory(it) ==
    IF it.kind = "Time" THEN [fmt |-> "same", ticks |-> it.ticks]
    ELSE IF IsNumeric(it) THEN [fmt |-> NumericFormat(FloatOf(it)), f |-> FloatOf(it)]
    ELSE IF it.kind = "str" THEN [fmt |-> "auto", text |-> it.text]
    ELSE [fmt |-> "TypeError"]

\* ticks in a day
Day == 24 * 3600 * Res

\* Time objects: ticks after a Julian Day number (a noon); windows around a noon,
\* the midnight after it and the next noon
TimeInputs ==
    { [kind |-> "Time", ticks |-> b + d] :
        b \in {Day, Day + Day \div 2, 2 * Day}, d \in (0 - Window)..Window }

FloatParts == { Pow10(e) - 1 : e \in 0..MaxExp } \cup { Pow10(e) : e \in 0..MaxExp }
                 \cup {2457754, 1498800000}

FloatInputs == { [kind |-> "float", neg |-> s, ip |-> p] : s \in BOOLEAN, p \in FloatParts }

StringInputs ==
    { [kind |-> "str", text |-> x] :
        x \in { <<"2","4","5","7","7","5","4",".","5">>,
                <<"1","4","9","8","8","0","0","0","0","0",".","0">>,
                <<"0","0","0","1","2","3","4","5","6","7",".","5">>,
                <<"1","2","3","4","5","6","7","8",".","5","\n">>,
                <<"9","9","9","9","9","9","9",".","9">>,
                <<"1","4","9","8","8","0","0","0","0","0">>,
                <<"-","5",".","5">>,
                <<".","5">>,
                <<"2","0","1","7","-","0","6","-","3","0">> } }

OtherInputs == { [kind |-> "int", val |-> 1498800000], [kind |-> "None"] }

\* the arguments tried as n
NArgs ==
    { [int |-> TRUE, val |-> v, repr |-> "int"] : v \in ((0 - MaxN)..MaxN) \cup {120} }
      \cup { [int |-> FALSE, val |-> 0, repr |-> v] : v \in {"30.0", "2.5", "'30'"} }

----------------------------------------------------------------------------
(* round_to_nearest_n_seconds *)

Abs(x) == IF x < 0 THEN 0 - x ELSE x

\* int(a / b) of a true division: truncation toward zero
TruncDiv(a, b) ==
    IF (a < 0) = (b < 0) THEN Abs(a) \div Abs(b) ELSE 0 - (Abs(a) \div Abs(b))

\* line 87: n * int(60.0 / n) != 60, for an int n other than 0
NotDivisor(v) == v * TruncDiv(60, v) # 60

\* round(num / den): to the nearest integer, ties to the even one
RoundHalfEven(num, den) ==
    LET a == IF den < 0 THEN 0 - num ELSE num
        b == Abs(den)
        q == a \div b
        r == a % b
    IN IF 2 * r < b THEN q
       ELSE IF 2 * r > b THEN q + 1
       ELSE IF q % 2 = 0 THEN q ELSE q + 1

\* t.jd1 of astropy's two-double Julian date: the nearest whole day
Jd1(t) == RoundHalfEven(t, Day) * Day

\* t.jd2: the fraction of a day left, in ticks
Jd2(t) == t - Jd1(t)

\* line 94, in units of n seconds: jd2 * integer_day_factor - round(jd2 * integer_day_factor),
\* times the n * Res ticks of line 96's td * n
TdTimesN(t, v) == Jd2(t) - RoundHalfEven(Jd2(t), v * Res) * (v * Res)

\* a slip of sign in line 96: t + td * n
RoundToNearestAdded(t, v) == t + TdTimesN(t, v)

\* lines 90-96
RoundToNearest(t, v) == t - TdTimesN(t, v)

TimeIdle ==
    /\ itime = [kind |-> "None"] /\ n = [int |-> FALSE, val |-> 0, repr |-> "unset"]
    /\ t_fact = [fmt |-> "unset"] /\ t_round = 0 /\ t_round2 = 0 /\ time_pc = "idle"

TimeInit ==
    /\ itime \in TimeInputs \cup FloatInputs \cup StringInputs \cup OtherInputs
    /\ n = [int |-> FALSE, val |-> 0, repr |-> "unset"]
    /\ t_fact = [fmt |-> "unset"]
    /\ t_round = 0
    /\ t_round2 = 0
    /\ time_pc = "entry"

\* time_factory(itime)
TimeFactoryCall ==
    /\ UNCHANGED <<log_vars, glob_vars, find_vars>>
    /\ time_pc = "entry"
    /\ t_fact' = TimeFactory(itime)
    /\ time_pc' = IF t_fact'.fmt = "TypeError" THEN "factory_TypeError" ELSE "factory_returned"
    /\ UNCHANGED <<itime, n, t_round, t_round2>>

\* round_to_nearest_n_seconds(itime, n), itime a Time object
RoundCall ==
    /\ UNCHANGED <<log_vars, glob_vars, find_vars>>
    /\ time_pc = "entry"
    /\ itime.kind = "Time"
    /\ \E a \in NArgs :
        /\ n' = a
        /\ IF ~a.int
           THEN /\ time_pc' = "TypeError"
                /\ UNCHANGED <<t_fact, t_round>>
           ELSE IF a.val = 0
           THEN /\ time_pc' = "ZeroDivisionError"
                /\ UNCHANGED <<t_fact, t_round>>
           ELSE IF NotDivisor(a.val)
           THEN /\ time_pc' = "TypeError"
                /\ UNCHANGED <<t_fact, t_round>>
           ELSE /\ t_fact' = TimeFactory(itime)
                /\ t_round' = RoundToNearest(t_fact'.ticks, a.val)
                /\ time_pc' = "rounded"
    /\ UNCHANGED <<itime, t_round2>>

\* round_to_nearest_n_seconds(r, n) of the time r the first call returned
RoundAgain ==
    /\ UNCHANGED <<log_vars, glob_vars, find_vars>>
    /\ time_pc = "rounded"
    /\ ~NotDivisor(n.val)
    /\ t_round2' = RoundToNearest(TimeFactory([kind |-> "Time", ticks |-> t_round]).ticks, n.val)
    /\ time_pc' = "rounded_twice"
    /\ UNCHANGED <<itime, n, t_fact, t_round>>

----------------------------------------------------------------------------
(* resolve_glob *)

\* most entries in the directory
MaxFiles == 3

\* the characters of a file name come in tokens, none a prefix of another, so that
\* comparing token by token is comparing the strings character by character
TokenRank(c) ==
    CASE c = "." -> 1 [] c = "/" -> 2 [] c = "CR2" -> 3 [] c = "NEF" -> 4
      [] c = "cfg" -> 5 [] c = "dfnstation" -> 6 [] c = "x" -> 7

\* a < b on str
RECURSIVE StrLess(_, _)
StrLess(a, b) ==
    IF Len(b) = 0 THEN FALSE
    ELSE IF Len(a) = 0 THEN TRUE
    ELSE IF a[1] = b[1] THEN StrLess(Tail(a), Tail(b))
    ELSE TokenRank(a[1]) < TokenRank(b[1])

\* sorted(): insertion of x into a sorted list, after the elements not greater
RECURSIVE Insert(_, _)
Insert(x, srt) ==
    IF Len(srt) = 0 THEN <<x>>
    ELSE IF StrLess(x, Head(srt)) THEN <<x>> \o srt
    ELSE <<Head(srt)>> \o Insert(x, Tail(srt))

\* the list as glob gives it, sorted() left out
Unsorted(l) == l

RECURSIVE Sorted(_)
Sorted(l) == IF Len(l) = 0 THEN <<>> ELSE Insert(l[Len(l)], Sorted(SubSeq(l, 1, Len(l) - 1)))

\* os.path.join(directory, name)
PathJoin(d, name) ==
    IF Len(d) = 0 THEN name
    ELSE IF d[Len(d)] = "/" THEN d \o name
    ELSE d \o <<"/">> \o name

\* fnmatch of a name against a pattern of literal tokens and "*"
RECURSIVE FnMatch(_, _)
FnMatch(name, pat) ==
    IF Len(pat) = 0 THEN Len(name) = 0
    ELSE IF pat[1] = "*"
         THEN \/ FnMatch(name, Tail(pat))
              \/ Len(name) > 0 /\ FnMatch(Tail(name), pat)
    ELSE /\ Len(name) > 0
         /\ name[1] = pat[1]
         /\ FnMatch(Tail(name), Tail(pat))

\* the first component of a path relative to the directory
FirstComponent(p) ==
    IF Contains(p, <<"/">>) THEN SubSeq(p, 1, Find(p, <<"/">>) - 1) ELSE p

\* os.listdir(directory): the names directly in the directory, each once, in the
\* order the file system gives them
RECURSIVE Listdir(_)
Listdir(entries) ==
    IF Len(entries) = 0 THEN <<>>
    ELSE LET before == Listdir(SubSeq(entries, 1, Len(entries) - 1))
             name   == FirstComponent(entries[Len(entries)])
         IN IF \E i \in 1..Len(before) : before[i] = name THEN before
            ELSE Append(before, name)

\* glob.glob(os.path.join(directory, pattern)) for a directory without wildcards:
\* the names of the directory that match, hidden names only for a pattern
\* starting with a dot
Glob(d, pat, entries) ==
    LET Visible(name) == pat[1] = "." \/ name[1] # "."
        Keep(name) == Visible(name) /\ FnMatch(name, pat)
        names == SelectSeq(Listdir(entries), Keep)
    IN [i \in 1..Len(names) |-> PathJoin(d, names[i])]

\* prefix + "*" + suffix + "*." + extension
Pattern(prefix, suffix, e) == prefix \o <<"*">> \o suffix \o <<"*", ".">> \o e

\* itertools.chain.from_iterable
RECURSIVE Chain(_)
Chain(ls) == IF Len(ls) = 0 THEN <<>> ELSE Head(ls) \o Chain(Tail(ls))

\* resolve_glob(extension, directory, prefix, suffix)
ResolveGlob(a, entries) ==
    IF a.is_str
    THEN Sorted(Glob(a.directory, Pattern(a.prefix, a.suffix, a.extension), entries))
    ELSE Sorted(Chain([i \in 1..Len(a.extension) |->
            Glob(a.directory, Pattern(a.prefix, a.suffix, a.extension[i]), entries)]))

\* the paths, relative to the directory, a directory may hold
EntryUniverse ==
    { <<"dfnstation", ".", "cfg">>,
      <<"x", "dfnstation", ".", "cfg">>,
      <<"NEF", "dfnstation", "x", ".", "cfg">>,
      <<"x", ".", "cfg">>,
      <<"x", ".", "NEF">>,
      <<"x", "x", ".", "NEF">>,
      <<"x", ".", "CR2">>,
      <<".", "x", ".", "NEF">>,
      <<"x", "/", "x", ".", "NEF">>,
      <<"x", "/", "dfnstation", ".", "cfg">> }

\* a directory: distinct paths, in the order of the file system
Directories ==
    UNION { { s \in [1..len -> EntryUniverse] : \A i, j \in 1..len : i # j => s[i] # s[j] }
            : len \in 0..MaxFiles }

ExtensionArgs ==
    { [is_str |-> TRUE, extension |-> e] : e \in {<<"NEF">>, <<"cfg">>} }
      \cup { [is_str |-> FALSE, extension |-> l] :
               l \in { <<>>, << <<"NEF">>, <<"CR2">> >>, << <<"CR2">>, <<"NEF">> >>,
                       << <<"NEF">>, <<"NEF">> >> } }

GlobArgs ==
    { [is_str |-> x.is_str, extension |-> x.extension, directory |-> <<".">>,
       prefix |-> p, suffix |-> sfx] :
        x \in ExtensionArgs, p \in {<<>>, <<"x">>}, sfx \in {<<>>, <<"dfnstation">>} }

NoArgs == [is_str |-> TRUE, extension |-> <<>>, directory |-> <<>>, prefix |-> <<>>, suffix |-> <<>>]

GlobIdle ==
    /\ dir_entries = <<>> /\ glob_args = NoArgs /\ reslist = <<>>
    /\ cfg_result = <<>> /\ warned = FALSE /\ glob_pc = "idle"

GlobInit ==
    /\ dir_entries \in Directories
    /\ glob_args = NoArgs
    /\ reslist = <<>>
    /\ cfg_result = <<>>
    /\ warned = FALSE
    /\ glob_pc = "entry"

\* resolve_glob called by a client
ResolveGlobCall ==
    /\ UNCHANGED <<log_vars, time_vars, find_vars>>
    /\ glob_pc = "entry"
    /\ \E a \in GlobArgs :
        /\ glob_args' = a
        /\ reslist' = ResolveGlob(a, dir_entries)
    /\ glob_pc' = "glob_returned"
    /\ UNCHANGED <<dir_entries, cfg_result, warned>>

----------------------------------------------------------------------------
(* getDfnstationConfigFile *)

stdcfgfilename == <<"dfnstation", ".", "cfg">>

\* line 113: the arguments of the resolve_glob call
ConfigGlobArgs(d) ==
    [is_str |-> TRUE, extension |-> <<"cfg">>, directory |-> d,
     prefix |-> <<>>, suffix |-> <<"dfnstation">>]

\* lines 118-121 without the test of lines 116-117
ConfigChoiceFirstMatch(d, possibleFiles) ==
    IF Len(possibleFiles) >= 1 THEN possibleFiles[1] ELSE <<>>

\* lines 116-121
ConfigChoice(d, possibleFiles) ==
    IF \E i \in 1..Len(possibleFiles) : possibleFiles[i] = PathJoin(d, stdcfgfilename)
    THEN stdcfgfilename
    ELSE IF Len(possibleFiles) >= 1 THEN possibleFiles[1]
    ELSE <<>>

\* getDfnstationConfigFile(directory)
GetDfnstationConfigFile ==
    /\ UNCHANGED <<log_vars, time_vars, find_vars>>
    /\ glob_pc = "entry"
    /\ \E d \in {<<".">>, <<>>} :
        LET possibleFiles == ResolveGlob(ConfigGlobArgs(d), dir_entries) IN
        /\ glob_args' = ConfigGlobArgs(d)
        /\ reslist' = possibleFiles
        /\ warned' = (Len(possibleFiles) > 1)
        /\ cfg_result' = ConfigChoice(d, possibleFiles)
    /\ glob_pc' = "config_returned"
    /\ UNCHANGED dir_entries

----------------------------------------------------------------------------
(* find_log_file *)

\* most lines the find command prints
MaxOut == 3

\* system_number + suffix + '.' + extension
ExtendedSuffix(a) == a.system_number \o a.suffix \o <<".">> \o a.extension

\* the bytes find prints: every line followed by a newline
RECURSIVE RawOutput(_)
RawOutput(lines) ==
    IF Len(lines) = 0 THEN <<>> ELSE Head(lines) \o <<"\n">> \o RawOutput(Tail(lines))

\* line 148 without the startswith test
ListResultsAnywhere(a, raw) ==
    LET Keep(e) == Contains(e, ExtendedSuffix(a))
    IN SelectSeq(Split(raw, <<"\n">>), Keep)

\* line 148: the lines of the output that hold the suffix and start with basedir
ListResults(a, raw) ==
    LET Keep(e) == Contains(e, ExtendedSuffix(a)) /\ StartsWith(e, a.basedir)
    IN SelectSeq(Split(raw, <<"\n">>), Keep)

FindArgs ==
    { [basedir |-> <<"/", "b">>, suffix |-> <<"_log">>, extension |-> <<"txt">>,
       system_number |-> sn] : sn \in {<<>>, <<"S">>} }

\* the lines find may print: files below basedir, and the pieces of a file name
\* that holds a newline
FindLines ==
    { <<"/", "b", "/", "x", "_log", ".", "txt">>,
      <<"/", "b", "/", "x", "S", "_log", ".", "txt">>,
      <<"/", "b", "/", "x", "/", "S", "_log", ".", "txt">>,
      <<"/", "o", "/", "S", "_log", ".", "txt">>,
      <<"/", "b", "/", "x">>,
      <<"S", "_log", ".", "txt">>,
      <<>> }

FindOutputs == UNION { [1..len -> FindLines] : len \in 0..MaxOut }

NoFindArgs == [basedir |-> <<>>, suffix |-> <<>>, extension |-> <<>>, system_number |-> <<>>]

FindIdle ==
    /\ find_output = <<>> /\ find_args = NoFindArgs /\ find_result = <<>> /\ find_pc = "idle"

FindInit ==
    /\ find_output \in FindOutputs
    /\ find_args = NoFindArgs
    /\ find_result = <<>>
    /\ find_pc = "entry"

\* find_log_file(basedir, suffix, extension, system_number), find having printed find_output
FindLogFile ==
    /\ UNCHANGED <<log_vars, time_vars, glob_vars>>
    /\ find_pc = "entry"
    /\ \E a \in FindArgs :
        LET list_results == ListResults(a, RawOutput(find_output)) IN
        /\ find_args' = a
        /\ IF Len(list_results) < 1
           THEN /\ find_pc' = "FileNotFoundError"
                /\ UNCHANGED find_result
           ELSE /\ find_pc' = "returned"
                /\ find_result' = list_results[1]
    /\ UNCHANGED find_output

----------------------------------------------------------------------------------------------------------------------------------------
(* Specifications: one per group of functions; the functions share no state *)

LogStart == LogInit /\ TimeIdle /\ GlobIdle /\ FindIdle
LogNext == CheckMode \/ ScanLine \/ EndOfFile \/ ReturnOrRaise
LogSpec == LogStart /\ [][LogNext]_vars

TimeStart == TimeInit /\ LogIdle /\ GlobIdle /\ FindIdle
TimeNext == TimeFactoryCall \/ RoundCall \/ RoundAgain
TimeSpec == TimeStart /\ [][TimeNext]_vars

GlobStart == GlobInit /\ LogIdle /\ TimeIdle /\ FindIdle
GlobNext == ResolveGlobCall \/ GetDfnstationConfigFile
GlobSpec == GlobStart /\ [][GlobNext]_vars

FindStart == FindInit /\ LogIdle /\ TimeIdle /\ GlobIdle
FindNext == FindLogFile
FindSpec == FindStart /\ [][FindNext]_vars

\* any one of the functions is called
Init == LogStart \/ TimeStart \/ GlobStart \/ FindStart
Next == LogNext \/ TimeNext \/ GlobNext \/ FindNext
Spec == Init /\ [][Next]_vars

----------------------------------------------------------------------------
(* Properties of search_dfn_operation_log *)

\* the call has ended: it returned, or it raised
LogEnded == log_pc \in {"returned", "KeyError", "IndexError"}

\* the numbers of the lines that hold both the key and the module
CandidateLines == { i \in 1..Len(log_lines) : IsCandidate(log_lines[i], key, module) }

EarliestCandidate == CHOOSE i \in CandidateLines : \A j \in CandidateLines : i <= j

\* the candidate lines, in file order
RECURSIVE CandidatesOf(_)
CandidatesOf(lines) ==
    IF Len(lines) = 0 THEN <<>>
    ELSE LET before == CandidatesOf(SubSeq(lines, 1, Len(lines) - 1)) IN
         IF IsCandidate(lines[Len(lines)], key, module)
         THEN Append(before, lines[Len(lines)]) ELSE before

\* what the code takes from a line in which the separator occurs
ExtractedValue(line) == Rstrip(SplitLine(line, key, module)[2])

\* the whole text after the first separator of a line, trailing whitespace removed
WholeValue(line) ==
    LET sep == Separator(module, key) IN
    Rstrip(SubSeq(line, Find(line, sep) + Len(sep), Len(line)))

\* C1: in mode "first" the call returns the value extracted from the earliest line that
\* holds both the key and the module, and it has read no line after that one
C1_FirstReturnsEarliestCandidate ==
    (results = "first" /\ LogEnded /\ CandidateLines # {}) =>
        /\ log_pc = "returned"
        /\ line_no = EarliestCandidate
        /\ return_object = [tag |-> "str", val |-> ExtractedValue(log_lines[EarliestCandidate])]

\* C2: in mode "list", with at least one candidate line, the call reads the whole file
\* and returns one extracted value per candidate line, in file order
C2_ListReturnsEveryCandidate ==
    (results = "list" /\ LogEnded /\ CandidateLines # {}) =>
        /\ log_pc = "returned"
        /\ line_no = Len(log_lines)
        /\ return_object.tag = "list"
        /\ Len(return_object.val) = Cardinality(CandidateLines)
        /\ \A j \in 1..Len(return_object.val) :
              return_object.val[j] = ExtractedValue(CandidatesOf(log_lines)[j])

\* C3: in the modes "first" and "list" the call raises KeyError exactly when no line
\* holds both the key and the module; with such a line it returns, and it ends in no
\* other way
C3_KeyErrorIffNoCandidate ==
    (results \in {"first", "list"} /\ LogEnded) =>
        /\ (log_pc = "KeyError") <=> (CandidateLines = {})
        /\ (CandidateLines # {}) => (log_pc = "returned")

\* C9: the value taken from a candidate line is the whole text after the separator up
\* to the end of the line, less trailing whitespace, also when the separator occurs
\* again in it
C9_ValueIsWholeTextAfterSeparator ==
    /\ (results = "first" /\ log_pc = "returned") =>
          return_object.val = WholeValue(log_lines[line_no])
    /\ (results = "list" /\ log_pc = "returned") =>
          \A j \in 1..Len(return_object.val) :
              return_object.val[j] = WholeValue(CandidatesOf(log_lines)[j])

----------------------------------------------------------------------------
(* Properties of time_factory and round_to_nearest_n_seconds *)

\* the divisors of 60
ValidN == {1, 2, 3, 4, 5, 6, 10, 12, 15, 20, 30, 60}

RoundEnded == time_pc \in {"TypeError", "ZeroDivisionError", "rounded", "rounded_twice"}
RoundAccepted == time_pc \in {"rounded", "rounded_twice"}

\* C4: n is accepted exactly when it is an int among the divisors of 60; any other n
\* is rejected with the TypeError of line 88
C4_AcceptsExactlyDivisorsOf60 ==
    RoundEnded =>
        /\ RoundAccepted <=> (n.int /\ n.val \in ValidN)
        /\ ~RoundAccepted => time_pc = "TypeError"

\* C5: a numeric input is read as a Unix timestamp exactly when the integer part of
\* its value has more than 7 digits, and as a Julian Day otherwise
C5_FormatByDigitCount ==
    (time_pc = "factory_returned" /\ IsNumeric(itime)) =>
        /\ (t_fact.fmt = "unix") <=> (NumDigits(FloatOf(itime).ip) > 7)
        /\ (t_fact.fmt = "jd") <=> (NumDigits(FloatOf(itime).ip) <= 7)

\* ticks since the midnight before the first noon of the model
SinceMidnight(t) == t - Day \div 2

\* t is on the n second grid of its day
OnGrid(t, v) == SinceMidnight(t) % (v * Res) = 0

\* the day t lies in
DayOf(t) == SinceMidnight(t) \div Day

\* C10: for a divisor n of 60, the time returned is on the n second grid of the day,
\* at most n/2 seconds from the input (in the next day when the nearest grid point is
\* the midnight ahead); a time on the grid is returned unchanged, and rounding the
\* result again returns it
C10_RoundsToNearestGridPoint ==
    (RoundAccepted /\ n.val \in ValidN) =>
        /\ OnGrid(t_round, n.val)
        /\ 2 * Abs(t_round - itime.ticks) <= n.val * Res
        /\ \A m \in {Day + Day \div 2} :
              2 * Abs(itime.ticks - m) < n.val * Res => t_round = m
        /\ OnGrid(itime.ticks, n.val) => t_round = itime.ticks
        /\ time_pc = "rounded_twice" => t_round2 = t_round

\* a time half a second before midnight, rounded to 30 s, is the midnight of the next day
C10_Witness ==
    /\ time_pc = "rounded_twice"
    /\ n.val = 30
    /\ itime.ticks = Day + Day \div 2 - 1
    /\ t_round = Day + Day \div 2
    /\ DayOf(t_round) = DayOf(itime.ticks) + 1

----------------------------------------------------------------------------
(* Properties of resolve_glob and getDfnstationConfigFile *)

\* the names directly in the directory
DirectNames == { FirstComponent(dir_entries[i]) : i \in 1..Len(dir_entries) }

\* name is prefix, anything, suffix, anything, ".", e; a leading dot of the name is
\* matched only by a leading dot of the pattern
MatchesPattern(name, prefix, suffix, e) ==
    LET tail == <<".">> \o e IN
    /\ Len(prefix) = 0 => name[1] # "."
    /\ StartsWith(name, prefix)
    /\ \E i \in (Len(prefix) + 1)..(Len(name) + 1) :
          /\ MatchAt(name, suffix, i)
          /\ i + Len(suffix) <= Len(name) - Len(tail) + 1
    /\ MatchAt(name, tail, Len(name) - Len(tail) + 1)

\* the extensions asked for, as a list
Requested == IF glob_args.is_str THEN <<glob_args.extension>> ELSE glob_args.extension

\* how often path p is in list l
Count(p, l) == Cardinality({ i \in 1..Len(l) : l[i] = p })

\* C7: the list returned is sorted and holds, once for every requested extension it
\* matches, every name directly in the directory that matches prefix*suffix*.extension,
\* and nothing else: nothing from a subdirectory, and the empty list when nothing matches
C7_SortedMatchesOfEveryExtension ==
    glob_pc = "glob_returned" =>
        /\ \A i, j \in 1..Len(reslist) : i < j => ~StrLess(reslist[j], reslist[i])
        /\ \A name \in DirectNames :
              Count(PathJoin(glob_args.directory, name), reslist) =
                  Cardinality({ k \in 1..Len(Requested) :
                      MatchesPattern(name, glob_args.prefix, glob_args.suffix, Requested[k]) })
        /\ \A i \in 1..Len(reslist) :
              \E name \in DirectNames : reslist[i] = PathJoin(glob_args.directory, name)
        /\ \A i \in 1..Len(dir_entries) :
              Contains(dir_entries[i], <<"/">>) =>
                  Count(PathJoin(glob_args.directory, dir_entries[i]), reslist) = 0

\* two extensions, the same one twice: each match is listed twice, in sorted order
\* though the directory lists them in another, and the file of the subdirectory is left out
C7_Witness ==
    /\ glob_pc = "glob_returned"
    /\ glob_args.extension = << <<"NEF">>, <<"NEF">> >>
    /\ glob_args.prefix = <<>> /\ glob_args.suffix = <<>>
    /\ dir_entries = << <<"x", "x", ".", "NEF">>, <<"x", "/", "x", ".", "NEF">>, <<"x", ".", "NEF">> >>
    /\ reslist = << <<".", "/", "x", ".", "NEF">>, <<".", "/", "x", ".", "NEF">>,
                    <<".", "/", "x", "x", ".", "NEF">>, <<".", "/", "x", "x", ".", "NEF">> >>

\* the candidates of getDfnstationConfigFile: the names matching *dfnstation*.cfg
ConfigCandidates ==
    { PathJoin(glob_args.directory, name) :
        name \in { x \in DirectNames : MatchesPattern(x, <<>>, <<"dfnstation">>, <<"cfg">>) } }

\* C6: "dfnstation.cfg" is returned whenever a file of that name is in the directory,
\* whatever else is; otherwise the first candidate in sorted order; the empty string
\* exactly when there is no candidate. Several candidates only raise the warning
C6_ConfigFilePreference ==
    glob_pc = "config_returned" =>
        /\ stdcfgfilename \in DirectNames => cfg_result = stdcfgfilename
        /\ (stdcfgfilename \notin DirectNames /\ ConfigCandidates # {}) =>
              /\ cfg_result \in ConfigCandidates
              /\ \A c \in ConfigCandidates : ~StrLess(c, cfg_result)
        /\ (cfg_result = <<>>) <=> (ConfigCandidates = {})
        /\ warned <=> (Cardinality(ConfigCandidates) > 1)

\* three candidates, the fixed name not the first in sorted order, and it is returned
C6_Witness ==
    /\ glob_pc = "config_returned"
    /\ Cardinality(ConfigCandidates) = 3
    /\ warned
    /\ reslist[1] # PathJoin(glob_args.directory, stdcfgfilename)
    /\ cfg_result = stdcfgfilename

----------------------------------------------------------------------------
(* Properties of find_log_file *)

\* the numbers of the printed lines that start with basedir and hold the suffix
PassingLines ==
    { i \in 1..Len(find_output) :
        /\ StartsWith(find_output[i], find_args.basedir)
        /\ Contains(find_output[i], ExtendedSuffix(find_args)) }

\* C8: the first printed line that starts with basedir and holds the suffix is
\* returned; FileNotFoundError is raised exactly when there is none; what is returned
\* is not empty and starts with basedir
C8_FirstPassingLineOrNotFound ==
    find_pc \in {"returned", "FileNotFoundError"} =>
        /\ (find_pc = "FileNotFoundError") <=> (PassingLines = {})
        /\ find_pc = "returned" =>
              /\ \E i \in PassingLines :
                    /\ find_result = find_output[i]
                    /\ \A j \in PassingLines : i <= j
              /\ find_result # <<>>
              /\ StartsWith(find_result, find_args.basedir)

\* a line outside basedir and a line without the suffix are passed over
C8_Witness ==
    /\ find_pc = "returned"
    /\ Len(find_output) = 3
    /\ find_output[1] = <<"/", "o", "/", "S", "_log", ".", "txt">>
    /\ find_output[2] = <<"/", "b", "/", "x">>
    /\ find_result = find_output[3]

====
